---- MODULE Spec2Model ----
(***************************************************************************)
(* Model of cllm's dynamic command execution (ADR-0013):                   *)
(*   - src/src/cllm/tools.py : command validation (deny / available /      *)
(*     allow / safe defaults) on top of fnmatch;                           *)
(*   - src/src/cllm/agent.py : the agentic loop that calls the LLM,        *)
(*     validates, confirms and executes the requested commands.            *)
(*   - src/src/cllm/context.py : execute_commands with its coroutines and  *)
(*     processes, and inject_context with the blocks it builds.            *)
(*                                                                         *)
(* Strings are tuples of one-character strings, so that equality, prefix   *)
(* and glob matching are computed character by character as fnmatch does.  *)
(* Patterns of the model never contain "[" (no character classes).         *)
(***************************************************************************)
EXTENDS Integers, Sequences, FiniteSets, TLC

(***************************************************************************)
(* Bounds of the model.                                                    *)
(***************************************************************************)
MaxTurns == 3      \* completion calls explored in one run of the loop
MaxToolCalls == 3  \* tool calls the LLM issues in one run, over all its turns
MaxBudget == 2     \* largest configured max_commands
MaxStrLen == 2     \* length of the enumerated command strings
MaxDenyLen == 1    \* entries of dynamic_commands.deny
MaxAllowLen == 1   \* entries of dynamic_commands.allow
MaxAvailLen == 1   \* entries of dynamic_commands.available_commands

\* Optional configuration values: None (key absent) or Some(list).
None == [is_none |-> TRUE, value |-> <<>>]
Some(list) == [is_none |-> FALSE, value |-> list]
NoError == ""

(***************************************************************************)
(* String constants.                                                       *)
(***************************************************************************)
SAFE_DEFAULT_COMMANDS ==
  << <<"g", "i", "t", " ", "s", "t", "a", "t", "u", "s", "*">>,
     <<"g", "i", "t", " ", "l", "o", "g", "*">>,
     <<"g", "i", "t", " ", "d", "i", "f", "f", "*">>,
     <<"g", "i", "t", " ", "s", "h", "o", "w", "*">>,
     <<"g", "i", "t", " ", "b", "r", "a", "n", "c", "h", "*">>,
     <<"l", "s", "*">>,
     <<"c", "a", "t", " ", "*">>,
     <<"h", "e", "a", "d", " ", "*">>,
     <<"t", "a", "i", "l", " ", "*">>,
     <<"g", "r", "e", "p", " ", "*">>,
     <<"f", "i", "n", "d", " ", "*">>,
     <<"n", "p", "m", " ", "t", "e", "s", "t", "*">>,
     <<"p", "y", "t", "e", "s", "t", "*">>,
     <<"m", "a", "k", "e", " ", "t", "e", "s", "t", "*">>,
     <<"d", "f", "*">>,
     <<"p", "s", "*">>,
     <<"w", "h", "o", "a", "m", "i">>,
     <<"p", "w", "d">>,
     <<"e", "c", "h", "o", " ", "*">> >>

GitStatus == <<"g", "i", "t", " ", "s", "t", "a", "t", "u", "s">>
RmRf == <<"r", "m", " ", "-", "r", "f", " ", "/">>
NpmTest == <<"n", "p", "m", " ", "t", "e", "s", "t">>
Lsof == <<"l", "s", "o", "f">>
PatRm == <<"r", "m", " ", "*">>
PatNpm == <<"n", "p", "m", "*">>
PatAll == <<"*">>
PatLs == <<"l", "s">>
PatLsOne == <<"l", "s", "?">>

(***************************************************************************)
(* Input domains.                                                          *)
(***************************************************************************)
SeqsUpTo(S, n) == UNION {[1..k -> S] : k \in 0..n}

CommandChars == {"l", "s"}

\* Commands handed to the validator: every short string over CommandChars,
\* plus the commands of the tests.
Commands ==
  SeqsUpTo(CommandChars, MaxStrLen) \cup {GitStatus, RmRf, NpmTest, Lsof, PatLsOne}

\* Patterns that a configuration may list.
Patterns == {PatAll, PatLs, PatLsOne, PatRm, PatNpm, GitStatus}

\* Entries of available_commands: dictionaries with a "command" key, or
\* something that is not a dictionary (skipped by the code).
AvailEntries == {[is_dict |-> TRUE, command |-> p] : p \in Patterns}
                  \cup {[is_dict |-> FALSE, command |-> <<>>]}

Policies ==
  [deny : SeqsUpTo(Patterns, MaxDenyLen),
   allow : {Some(l) : l \in SeqsUpTo(Patterns, MaxAllowLen)} \cup {None},
   available_commands : {Some(l) : l \in SeqsUpTo(AvailEntries, MaxAvailLen)} \cup {None}]

(***************************************************************************)
(* fnmatch.fnmatch(name, pat): "*" matches any run of characters, "?" any  *)
(* single character, every other character itself; the whole name must     *)
(* match.                                                                  *)
(***************************************************************************)
RECURSIVE fnmatch(_, _)
fnmatch(name, pat) ==
  IF pat = <<>> THEN name = <<>>
  ELSE IF Head(pat) = "*"
       THEN fnmatch(name, Tail(pat)) \/ (name # <<>> /\ fnmatch(Tail(name), pat))
  ELSE IF name = <<>> THEN FALSE
  ELSE IF Head(pat) = "?" THEN fnmatch(Tail(name), Tail(pat))
  ELSE Head(name) = Head(pat) /\ fnmatch(Tail(name), Tail(pat))

\* name starts with prefix (plain text comparison, no wildcards)
StartsWith(name, prefix) ==
  /\ Len(prefix) <= Len(name)
  /\ SubSeq(name, 1, Len(prefix)) = prefix

(***************************************************************************)
(* tools.py: is_command_allowed and its four rules.                        *)
(***************************************************************************)
\* for pattern in denylist: if fnmatch(command, pattern): return False
DenyMatches(command, dc) ==
  \E i \in DOMAIN dc.deny : fnmatch(command, dc.deny[i])

\* Faulty variant: exact match only, the "variations" pattern is forgotten.
AvailEntryMatches_exact(command, cmd_def) ==
  cmd_def.is_dict /\ command = cmd_def.command

\* command == cmd_pattern or fnmatch(command, cmd_pattern + "*")
AvailEntryMatches(command, cmd_def) ==
  /\ cmd_def.is_dict
  /\ \/ command = cmd_def.command
     \/ fnmatch(command, cmd_def.command \o <<"*">>)

AvailableMatches(command, dc) ==
  /\ dc.available_commands # None
  /\ \E i \in DOMAIN dc.available_commands.value :
        AvailEntryMatches(command, dc.available_commands.value[i])

AllowMatches(command, dc) ==
  /\ dc.allow # None
  /\ \E i \in DOMAIN dc.allow.value : fnmatch(command, dc.allow.value[i])

SafeDefaultMatches(command) ==
  \E i \in DOMAIN SAFE_DEFAULT_COMMANDS : fnmatch(command, SAFE_DEFAULT_COMMANDS[i])

\* Faulty variant: only the allowlist switches the safe defaults off.
ExplicitlyConfigured_allow_only(dc) == dc.allow # None

\* if available_commands is not None or allowlist is not None: return False
ExplicitlyConfigured(dc) ==
  dc.available_commands # None \/ dc.allow # None

\* Faulty variant: the denylist is consulted after the accepting rules.
is_command_allowed_deny_last(command, dc) ==
  IF AvailableMatches(command, dc) THEN TRUE
  ELSE IF AllowMatches(command, dc) THEN TRUE
  ELSE IF DenyMatches(command, dc) THEN FALSE
  ELSE IF ExplicitlyConfigured(dc) THEN FALSE
  ELSE SafeDefaultMatches(command)

\* Faulty variant: a configured available_commands decides alone.
is_command_allowed_available_exclusive(command, dc) ==
  IF DenyMatches(command, dc) THEN FALSE
  ELSE IF dc.available_commands # None THEN AvailableMatches(command, dc)
  ELSE IF AllowMatches(command, dc) THEN TRUE
  ELSE IF ExplicitlyConfigured(dc) THEN FALSE
  ELSE SafeDefaultMatches(command)

is_command_allowed(command, dc) ==
  IF DenyMatches(command, dc) THEN FALSE
  ELSE IF AvailableMatches(command, dc) THEN TRUE
  ELSE IF AllowMatches(command, dc) THEN TRUE
  ELSE IF ExplicitlyConfigured(dc) THEN FALSE
  ELSE SafeDefaultMatches(command)

\* An explanation: the rule it names, the command, and the deny pattern
\* when the rule is the denylist.
Reason(rule, command, pattern) ==
  [rule |-> rule, command |-> command, pattern |-> pattern]

\* Faulty variant: the denylist is looked at only when nothing is configured.
get_disallowed_reason_deny_last(command, dc) ==
  IF ExplicitlyConfigured(dc)
  THEN Reason("is not in the configured allowed commands", command, <<>>)
  ELSE IF DenyMatches(command, dc)
  THEN Reason("matches denylist pattern", command,
              dc.deny[CHOOSE i \in DOMAIN dc.deny :
                        /\ fnmatch(command, dc.deny[i])
                        /\ \A j \in 1..(i - 1) : ~fnmatch(command, dc.deny[j])])
  ELSE Reason("is not in the safe default command list", command, <<>>)

\* The first deny pattern that matches is named; otherwise the configured
\* allowed commands when available_commands or allow is configured;
\* otherwise the safe default list.
get_disallowed_reason(command, dc) ==
  IF DenyMatches(command, dc)
  THEN Reason("matches denylist pattern", command,
              dc.deny[CHOOSE i \in DOMAIN dc.deny :
                        /\ fnmatch(command, dc.deny[i])
                        /\ \A j \in 1..(i - 1) : ~fnmatch(command, dc.deny[j])])
  ELSE IF dc.available_commands # None \/ dc.allow # None
  THEN Reason("is not in the configured allowed commands", command, <<>>)
  ELSE Reason("is not in the safe default command list", command, <<>>)

\* Faulty variant: validation never raises.
validate_command_unchecked(command, dc) == "ok"

\* validate_command raises CommandValidationError exactly when the command
\* is not allowed; "ok" stands for the normal return.
validate_command(command, dc) ==
  IF ~is_command_allowed(command, dc) THEN "CommandValidationError" ELSE "ok"

(***************************************************************************)
(* agent.py: inputs of the agentic loop.                                   *)
(***************************************************************************)
\* Commands an LLM asks for in the loop.
AgentCommands == {GitStatus, RmRf}

\* The dynamic_commands section the loop runs under: "rm *" denied, "*" allowed.
DenyRmAllowAll == [deny |-> <<PatRm>>, allow |-> Some(<<PatAll>>), available_commands |-> None]
AgentPolicies == {DenyRmAllowAll}

\* tool_call.function.arguments: a JSON object with a command, text that is
\* not JSON, or JSON that is not an object.
Arguments ==
  {[kind |-> "object", command |-> c] : c \in AgentCommands}
    \cup {[kind |-> "invalid_json", command |-> <<>>],
          [kind |-> "not_object", command |-> <<>>]}

\* The tool calls of turn t, at most n of them: ids are unique,
\* <<turn, position>>.
Batches(t, n) ==
  UNION {{[i \in 1..k |-> [id |-> <<t, i>>, arguments |-> a[i]]] :
            a \in [1..k -> Arguments]} : k \in 0..n}

\* What litellm.completion gives back: an exception, or a choice with a
\* finish_reason, a message that has or lacks tool_calls, and a content.
Response(kind, finish_reason, has_tool_calls, calls, content) ==
  [kind |-> kind, finish_reason |-> finish_reason,
   has_tool_calls |-> has_tool_calls, tool_calls |-> calls, content |-> content]

Responses(t, n) ==
  {Response("exception", "", FALSE, <<>>, "")}
    \cup {Response("choice", "tool_calls", TRUE, b, "") : b \in Batches(t, n)}
    \cup {Response("choice", "tool_calls", FALSE, <<>>, c) : c \in {"", "answer"}}
    \cup {Response("choice", fr, FALSE, <<>>, c) :
            fr \in {"stop", "length"}, c \in {"", "answer"}}

\* CommandResult of the executor for one command (context.py): exit code 0
\* with output, a nonzero exit code with partial output, a timeout or a
\* spawn failure (both without output).
CommandResult(success, output, error_message) ==
  [success |-> success, output |-> output, error_message |-> error_message]

CommandResults ==
  {CommandResult(TRUE, "out", NoError),
   CommandResult(FALSE, "out", "Command exited with code 1"),
   CommandResult(FALSE, "", "Command timed out after 30 seconds"),
   CommandResult(FALSE, "", "Execution error")}

(***************************************************************************)
(* agent.py: messages and helper functions.                                *)
(***************************************************************************)
Message(role, tool_call_id, calls, content) ==
  [role |-> role, tool_call_id |-> tool_call_id, tool_calls |-> calls,
   content |-> content]

NoId == <<0, 0>>

\* contents of tool messages and of final results
Text(kind, detail, output) == [kind |-> kind, detail |-> detail, output |-> output]

\* {"role": "tool", "tool_call_id": tool_call.id, "content": ...}
ToolMessage(tool_call, content) == Message("tool", tool_call.id, <<>>, content)

\* messages.append(message.model_dump())
AppendAssistant(msgs, response) ==
  Append(msgs, Message("assistant", NoId, response.tool_calls, Text("", "", "")))

\* Faulty variant: the parse error is not reported back.
AppendParseError_dropped(msgs, tool_call) == msgs

\* json.loads failed: the error goes back to the LLM as a tool result
AppendParseError(msgs, tool_call) ==
  Append(msgs, ToolMessage(tool_call, Text("Failed to parse tool call arguments", "", "")))

\* Faulty variant: the rejection is not reported back.
AppendValidationError_silent(msgs, tool_call) == msgs

\* CommandValidationError: the reason goes back to the LLM as a tool result
AppendValidationError(msgs, tool_call) ==
  Append(msgs, ToolMessage(tool_call, Text("Command validation failed", "", "")))

\* Faulty variant: the partial output of a failed command is left out.
execute_single_command_no_partial(result) ==
  IF ~result.success THEN Text("Error", result.error_message, "")
  ELSE IF result.output # "" THEN Text("output", "", result.output)
       ELSE Text("(no output)", "", "")

\* execute_single_command: the text made from the CommandResult
execute_single_command(result) ==
  IF ~result.success
  THEN IF result.output # ""
       THEN Text("Error", result.error_message, result.output)
       ELSE Text("Error", result.error_message, "")
  ELSE IF result.output # "" THEN Text("output", "", result.output)
       ELSE Text("(no output)", "", "")

\* Faulty variant: the tool result is put in front of the history.
AppendToolResult_front(msgs, tool_call, output) ==
  <<ToolMessage(tool_call, output)>> \o msgs

\* messages.append({"role": "tool", "tool_call_id": tool_call.id, "content": output})
AppendToolResult(msgs, tool_call, output) ==
  Append(msgs, ToolMessage(tool_call, output))

\* Faulty variant: the condition is tested after the first turn only.
LoopGuard_do_while(executed_count, limit) ==
  executed_count = 0 \/ executed_count < limit

\* Faulty variant: one iteration too many.
LoopGuard_inclusive(executed_count, limit) == executed_count <= limit

\* while commands_executed < max_commands
LoopGuard(executed_count, limit) == executed_count < limit

\* Faulty variant: the for loop goes on when the limit is reached.
BudgetHit_strict(executed_count, limit) == executed_count > limit

\* if commands_executed >= max_commands: break
BudgetHit(executed_count, limit) == executed_count >= limit

\* raise AgentExecutionError("Maximum command execution limit reached (N commands)...")
BudgetError(limit) ==
  [type |-> "raise", text |-> Text("Maximum command execution limit reached", "", ""),
   limit |-> limit]

Raise(kind, detail) == [type |-> "raise", text |-> Text(kind, detail, ""), limit |-> 0]
Return(kind, detail) == [type |-> "return", text |-> Text(kind, detail, ""), limit |-> 0]
NoResult == [type |-> "none", text |-> Text("", "", ""), limit |-> 0]

\* Faulty variant: the for loop goes on with the turn's next call.
AfterExecution_no_break(hit, continue_pc) == continue_pc

\* if commands_executed >= max_commands: break
\* (the while condition is tested next)
AfterExecution(hit, continue_pc) == IF hit THEN "awaiting" ELSE continue_pc

\* Faulty variant: the loop tries the completion call again.
OnCompletionError_retry == [pc |-> "awaiting", result |-> NoResult]

\* except Exception as e: raise AgentExecutionError(f"LLM API call failed: {e}")
OnCompletionError == [pc |-> "raised", result |-> Raise("LLM API call failed", "")]

\* raise AgentExecutionError("LLM returned empty response")
EmptyResponseError == Raise("LLM returned empty response", "")

\* Faulty variant: the error does not say which finish reason came.
UnexpectedFinish_unnamed(finish_reason) == Raise("Unexpected finish reason", "")

\* raise AgentExecutionError(f"Unexpected finish reason: {choice.finish_reason}")
UnexpectedFinish(finish_reason) == Raise("Unexpected finish reason", finish_reason)

\* Faulty variant: the refusal is raised as an error.
UserDenied_raised == Raise("Command execution denied by user.", "")

\* return "Command execution denied by user."
UserDenied == Return("Command execution denied by user.", "")

(***************************************************************************)
(* State.                                                                  *)
(***************************************************************************)
VARIABLES
  pc,                   \* position of the running function
  dynamic_commands,     \* config["dynamic_commands"]: deny, allow, available_commands
  max_commands,         \* dynamic_commands["max_commands"]
  require_confirmation, \* parameter of execute_with_dynamic_commands
  has_system,           \* "default_system_message" in config
  messages,             \* the message history
  commands_executed,    \* the loop's counter
  tool_calls,           \* message.tool_calls of the turn being processed
  idx,                  \* position of the for loop in tool_calls
  llm_calls,            \* number of litellm.completion calls made
  request,              \* kwargs["messages"] of the latest completion call
  responses,            \* the responses received so far
  log,                  \* validations, confirmations and executions, in order
  result,               \* value returned or exception raised by the loop
  v_command,            \* argument of a direct is_command_allowed call
  v_allowed,            \* its return value
  command_result,       \* CommandResult of the latest command the loop ran
  commands,             \* the batch handed to execute_commands / inject_context
  parallel,             \* parameter of execute_commands / inject_context
  task_pc,              \* position of each _execute_command_async coroutine
  procs,                \* the process spawned for each command
  task_results,         \* what each coroutine returned
  completion,           \* the coroutines in the order in which they finished
  results,              \* what execute_commands returned
  prompt,               \* parameter of inject_context
  injected              \* what inject_context returned or raised

vars == <<pc, dynamic_commands, max_commands, require_confirmation, has_system,
          messages, commands_executed, tool_calls, idx, llm_calls, request,
          responses, log, result, v_command, v_allowed, command_result,
          commands, parallel, task_pc, procs, task_results, completion, results,
          prompt, injected>>

configVars == <<dynamic_commands, max_commands, require_confirmation, has_system>>
validatorVars == <<v_command, v_allowed>>
contextVars == <<commands, parallel, task_pc, procs, task_results, completion,
                 results, prompt, injected>>

Event(ev, tool_call, command) == [ev |-> ev, id |-> tool_call.id, command |-> command]

\* Faulty variant: the command runs without the user being asked.
Confirmation_skipped(required, tool_call, command) == <<>>

\* if require_confirmation: confirm_command_execution(command, reason)
\* answered with yes
Confirmation(required, tool_call, command) ==
  IF required THEN <<Event("approved", tool_call, command)>> ELSE <<>>

UserMessage == Message("user", NoId, <<>>, Text("prompt", "", ""))
SystemMessage == Message("system", NoId, <<>>, Text("default_system_message", "", ""))

\* number of tool calls in the responses received so far
ToolCallsIssued(rs) ==
  Cardinality(UNION {{<<i, k>> : k \in DOMAIN rs[i].tool_calls} : i \in DOMAIN rs})

\* no command has run yet
NoCommandResult == CommandResult(FALSE, "", NoError)

\* no batch is being executed and no prompt is being augmented
ContextIdle ==
  /\ commands = <<>>
  /\ parallel = FALSE
  /\ task_pc = <<>>
  /\ procs = <<>>
  /\ task_results = <<>>
  /\ completion = <<>>
  /\ results = None
  /\ prompt = <<>>
  /\ injected = NoResult

\* messages = [user]; messages.insert(0, system) when configured
InitialMessages(system) ==
  IF system THEN <<SystemMessage, UserMessage>> ELSE <<UserMessage>>

(***************************************************************************)
(* execute_with_dynamic_commands                                           *)
(***************************************************************************)
Init ==
  /\ pc = "awaiting"
  /\ dynamic_commands \in AgentPolicies
  /\ max_commands \in -1..MaxBudget
  /\ require_confirmation \in BOOLEAN
  /\ has_system \in BOOLEAN
  /\ messages = InitialMessages(has_system)
  /\ commands_executed = 0
  /\ tool_calls = <<>>
  /\ idx = 1
  /\ llm_calls = 0
  /\ request = <<>>
  /\ responses = <<>>
  /\ log = <<>>
  /\ result = NoResult
  /\ v_command = <<>>
  /\ v_allowed = FALSE
  /\ command_result = NoCommandResult
  /\ ContextIdle

\* One iteration of the while loop up to the dispatch on the response:
\* the completion call and the branch on finish_reason.
CompletionCall ==
  /\ pc = "awaiting"
  /\ LoopGuard(commands_executed, max_commands)
  /\ llm_calls < MaxTurns
  /\ \E response \in Responses(llm_calls + 1, MaxToolCalls - ToolCallsIssued(responses)) :
       /\ llm_calls' = llm_calls + 1
       /\ request' = messages
       /\ responses' = Append(responses, response)
       /\ IF response.kind = "exception"
          THEN /\ pc' = OnCompletionError.pc
               /\ result' = OnCompletionError.result
               /\ UNCHANGED <<messages, tool_calls, idx>>
          ELSE IF response.finish_reason = "tool_calls" /\ response.has_tool_calls
          THEN /\ messages' = AppendAssistant(messages, response)
               /\ tool_calls' = response.tool_calls
               /\ idx' = 1
               /\ pc' = IF response.tool_calls = <<>> THEN "awaiting" ELSE "processing"
               /\ UNCHANGED result
          ELSE IF response.finish_reason = "stop"
          THEN /\ IF response.content # ""
                  THEN pc' = "returned" /\ result' = Return("content", response.content)
                  ELSE pc' = "raised" /\ result' = EmptyResponseError
               /\ UNCHANGED <<messages, tool_calls, idx>>
          ELSE /\ IF response.content # ""
                  THEN pc' = "returned" /\ result' = Return("content", response.content)
                  ELSE pc' = "raised"
                       /\ result' = UnexpectedFinish(response.finish_reason)
               /\ UNCHANGED <<messages, tool_calls, idx>>
  /\ UNCHANGED <<configVars, commands_executed, log, validatorVars,
                 command_result, contextVars>>

\* One iteration of the for loop over message.tool_calls: parse, validate,
\* confirm, execute, append the tool result, count, check the limit.
ProcessToolCall ==
  /\ pc = "processing"
  /\ LET tool_call == tool_calls[idx]
         args == tool_call.arguments
         command == args.command
         continue_pc == IF idx + 1 > Len(tool_calls) THEN "awaiting" ELSE "processing"
     IN
       \/ \* json.JSONDecodeError
          /\ args.kind = "invalid_json"
          /\ messages' = AppendParseError(messages, tool_call)
          /\ idx' = idx + 1
          /\ pc' = continue_pc
          /\ UNCHANGED <<commands_executed, log, result, command_result>>
       \/ \* args is not a dict: args.get raises AttributeError, which no
          \* except clause of the loop catches
          /\ args.kind = "not_object"
          /\ pc' = "crashed"
          /\ result' = Raise("AttributeError", "")
          /\ UNCHANGED <<messages, idx, commands_executed, log, command_result>>
       \/ \* validate_command raised
          /\ args.kind = "object"
          /\ validate_command(command, dynamic_commands) # "ok"
          /\ messages' = AppendValidationError(messages, tool_call)
          /\ log' = Append(log, Event("rejected", tool_call, command))
          /\ idx' = idx + 1
          /\ pc' = continue_pc
          /\ UNCHANGED <<commands_executed, result, command_result>>
       \/ \* the user declines
          /\ args.kind = "object"
          /\ validate_command(command, dynamic_commands) = "ok"
          /\ require_confirmation
          /\ log' = log \o <<Event("validated", tool_call, command),
                             Event("declined", tool_call, command)>>
          /\ pc' = "returned"
          /\ result' = UserDenied
          /\ UNCHANGED <<messages, idx, commands_executed, command_result>>
       \/ \* the command runs
          /\ args.kind = "object"
          /\ validate_command(command, dynamic_commands) = "ok"
          /\ \E executed \in CommandResults :
               /\ command_result' = executed
               /\ messages' = AppendToolResult(messages, tool_call,
                                               execute_single_command(executed))
          /\ log' = log \o <<Event("validated", tool_call, command)>>
                        \o Confirmation(require_confirmation, tool_call, command)
                        \o <<Event("executed", tool_call, command)>>
          /\ commands_executed' = commands_executed + 1
          /\ idx' = idx + 1
          /\ pc' = AfterExecution(BudgetHit(commands_executed + 1, max_commands),
                                  continue_pc)
          /\ UNCHANGED result
  /\ UNCHANGED <<configVars, tool_calls, llm_calls, request, responses,
                 validatorVars, contextVars>>

\* The while condition is false: the code after the loop raises.
RaiseBudget ==
  /\ pc = "awaiting"
  /\ ~LoopGuard(commands_executed, max_commands)
  /\ pc' = "raised"
  /\ result' = BudgetError(max_commands)
  /\ UNCHANGED <<configVars, messages, commands_executed, tool_calls, idx,
                 llm_calls, request, responses, log, validatorVars,
                 command_result, contextVars>>

Next == CompletionCall \/ ProcessToolCall \/ RaiseBudget

Spec == Init /\ [][Next]_vars

\* Every step of the loop ends (the completion call and the commands have
\* timeouts), so the loop keeps stepping while a step is possible.
FairSpec == Spec /\ WF_vars(Next)

(***************************************************************************)
(* Direct calls of is_command_allowed, over all policies and commands.     *)
(***************************************************************************)
ValidatorInit ==
  /\ pc = "v_call"
  /\ dynamic_commands \in Policies
  /\ v_command \in Commands
  /\ v_allowed = FALSE
  /\ max_commands = 10
  /\ require_confirmation = FALSE
  /\ has_system = FALSE
  /\ messages = <<>>
  /\ commands_executed = 0
  /\ tool_calls = <<>>
  /\ idx = 1
  /\ llm_calls = 0
  /\ request = <<>>
  /\ responses = <<>>
  /\ log = <<>>
  /\ result = NoResult
  /\ command_result = NoCommandResult
  /\ ContextIdle

IsCommandAllowedCall ==
  /\ pc = "v_call"
  /\ v_allowed' = is_command_allowed(v_command, dynamic_commands)
  /\ pc' = "v_return"
  /\ UNCHANGED <<configVars, messages, commands_executed, tool_calls, idx,
                 llm_calls, request, responses, log, result, v_command,
                 command_result, contextVars>>

ValidatorNext == IsCommandAllowedCall

ValidatorSpec == ValidatorInit /\ [][ValidatorNext]_vars

(***************************************************************************)
(* Direct calls of validate_command, over all policies and commands.       *)
(***************************************************************************)
\* validate_command: is_command_allowed decides; when it says no, the
\* explanation of get_disallowed_reason is the message of the
\* CommandValidationError raised; otherwise the call returns None.
ValidateCommandCall ==
  /\ pc = "v_call"
  /\ v_allowed' = is_command_allowed(v_command, dynamic_commands)
  /\ IF validate_command(v_command, dynamic_commands) = "ok"
     THEN /\ result' = Return("None", "")
          /\ pc' = "v_validated"
     ELSE /\ result' = Raise(validate_command(v_command, dynamic_commands),
                             get_disallowed_reason(v_command, dynamic_commands))
          /\ pc' = "v_raised"
  /\ UNCHANGED <<configVars, messages, commands_executed, tool_calls, idx,
                 llm_calls, request, responses, log, v_command,
                 command_result, contextVars>>

ValidateNext == ValidateCommandCall

ValidateSpec == ValidatorInit /\ [][ValidateNext]_vars

TypeOK ==
  /\ pc \in {"awaiting", "processing", "returned", "raised", "crashed",
            "v_call", "v_return", "v_validated", "v_raised",
            "x_call", "x_running", "x_returned", "x_raised", "i_call", "i_returned", "i_raised"}
  /\ commands_executed \in Nat
  /\ idx \in 1..(MaxToolCalls + 1)
  /\ llm_calls \in 0..MaxTurns
  /\ v_allowed \in BOOLEAN
  /\ \A i \in DOMAIN commands : commands[i].on_failure \in {"warn", "ignore", "fail"}

(***************************************************************************)
(* context.py: commands, processes and the results made from them.         *)
(***************************************************************************)
\* ContextCommand(name, command, on_failure, timeout)
ContextCommand(name, command, on_failure, timeout) ==
  [name |-> name, command |-> command, on_failure |-> on_failure, timeout |-> timeout]

\* The commands of a batch handed to execute_commands: two labels, two
\* timeouts, the default failure mode.
ExecCommands ==
  {ContextCommand("a", <<"ls">>, "warn", 1), ContextCommand("b", <<"ls">>, "warn", 10)}

\* What a process writes to stdout and to stderr, as decoded text: nothing,
\* text, or (stderr) white space only.
Stdouts == {<<>>, <<"o">>}
Stderrs == {<<>>, <<"e">>, <<" ">>}

\* proc.returncode of a process that ended by itself
ReturnCodes == {0, 1}

\* What proc.kill() does after the timeout: the signal is delivered, the
\* process is already gone (ProcessLookupError), or the signal is refused
\* (another exception, such as PermissionError).
KillOutcomes == {"killed", "ProcessLookupError", "PermissionError"}

Whitespace == {" ", "\n", "\t"}

\* str.strip()
RECURSIVE lstrip(_)
lstrip(text) ==
  IF text # <<>> /\ Head(text) \in Whitespace THEN lstrip(Tail(text)) ELSE text

RECURSIVE rstrip(_)
rstrip(text) ==
  IF text # <<>> /\ text[Len(text)] \in Whitespace
  THEN rstrip(SubSeq(text, 1, Len(text) - 1)) ELSE text

strip(text) == rstrip(lstrip(text))

\* combined_output = output; if error_output.strip(): combined_output +=
\* "\n" + error_output; the result holds combined_output.strip()
combined_output(stdout, stderr) ==
  strip(IF strip(stderr) # <<>> THEN stdout \o <<"\n">> \o stderr ELSE stdout)

\* error_message texts
ErrorMessage(kind, detail) == [kind |-> kind, detail |-> detail]
NoErrorMessage == ErrorMessage("None", 0)

\* CommandResult(name, output, success, error_message)
NamedResult(name, output, success, error_message) ==
  [name |-> name, output |-> output, success |-> success,
   error_message |-> error_message]

\* an exception that leaves the coroutine instead of a result
Raised(exception) == [raised |-> exception]
IsRaised(r) == "raised" \in DOMAIN r

\* returncode == 0
SuccessResult(cmd, stdout, stderr) ==
  NamedResult(cmd.name, combined_output(stdout, stderr), TRUE, NoErrorMessage)

\* returncode != 0
FailureResult(cmd, returncode, stdout, stderr) ==
  NamedResult(cmd.name, combined_output(stdout, stderr), FALSE,
              ErrorMessage("Command exited with code", returncode))

\* Faulty variant: the message reports a fixed number of seconds.
TimedOutResult_fixed(cmd) ==
  NamedResult(cmd.name, <<>>, FALSE, ErrorMessage("Command timed out after seconds", 30))

\* except asyncio.TimeoutError: ... return CommandResult(...)
TimedOutResult(cmd) ==
  NamedResult(cmd.name, <<>>, FALSE,
              ErrorMessage("Command timed out after seconds", cmd.timeout))

\* Faulty variant: the exception leaves the coroutine.
ExecutionErrorResult_propagated(cmd, exception) == Raised(exception)

\* except Exception as e: return CommandResult(...)
ExecutionErrorResult(cmd, exception) ==
  NamedResult(cmd.name, <<>>, FALSE, ErrorMessage("Execution error", exception))

\* the process of one command: what became of the shell, whether processes
\* the shell started (and that hold its pipes) are running, how the shell
\* ended, what it wrote, whether wait_for ran into the timeout and what
\* proc.kill() did then
Process(shell, children, returncode, stdout, stderr, timed_out, kill) ==
  [shell |-> shell, children |-> children, returncode |-> returncode,
   stdout |-> stdout, stderr |-> stderr, timed_out |-> timed_out, kill |-> kill]

NoProcess == Process("none", FALSE, 0, <<>>, <<>>, FALSE, "")

NoTaskResult == [none |-> TRUE]

(***************************************************************************)
(* context.py: execute_commands and its coroutines, one step per stretch   *)
(* of code between two awaits.                                             *)
(***************************************************************************)
MaxSpecs == 2   \* commands in one batch

Batch == SeqsUpTo(ExecCommands, MaxSpecs)

ExecInit ==
  /\ pc = "x_call"
  /\ commands \in Batch
  /\ parallel \in BOOLEAN
  /\ task_pc = [i \in DOMAIN commands |-> "pending"]
  /\ procs = [i \in DOMAIN commands |-> NoProcess]
  /\ task_results = [i \in DOMAIN commands |-> NoTaskResult]
  /\ completion = <<>>
  /\ results = None
  /\ prompt = <<>>
  /\ injected = NoResult
  /\ dynamic_commands = DenyRmAllowAll
  /\ max_commands = 10
  /\ require_confirmation = FALSE
  /\ has_system = FALSE
  /\ messages = <<>>
  /\ commands_executed = 0
  /\ tool_calls = <<>>
  /\ idx = 1
  /\ llm_calls = 0
  /\ request = <<>>
  /\ responses = <<>>
  /\ log = <<>>
  /\ result = NoResult
  /\ v_command = <<>>
  /\ v_allowed = FALSE
  /\ command_result = NoCommandResult

agentVars == <<configVars, messages, commands_executed, tool_calls, idx, llm_calls,
               request, responses, log, result, validatorVars, command_result>>

\* the coroutine of command i ends with this value
Finish(i, value) ==
  /\ task_results' = [task_results EXCEPT ![i] = value]
  /\ task_pc' = [task_pc EXCEPT ![i] = "done"]
  /\ completion' = Append(completion, i)

\* if not commands: return []; otherwise asyncio.run(_run_all())
ExecuteCommandsCall ==
  /\ pc = "x_call"
  /\ IF commands = <<>>
     THEN pc' = "x_returned" /\ results' = Some(<<>>)
     ELSE pc' = "x_running" /\ UNCHANGED results
  /\ UNCHANGED <<agentVars, commands, parallel, task_pc, procs, task_results,
                 completion, prompt, injected>>

\* gather starts every coroutine; the for loop starts a command when the
\* coroutines of the commands before it have returned
MayStart(i) ==
  parallel \/ \A j \in 1..(i - 1) : task_pc[j] = "done"

\* proc = await asyncio.create_subprocess_shell(...): the shell is running,
\* with or without processes of its own, or the call raised
Spawn(i) ==
  /\ pc = "x_running"
  /\ task_pc[i] = "pending"
  /\ MayStart(i)
  /\ \/ /\ \E children \in BOOLEAN :
             procs' = [procs EXCEPT ![i] =
                         Process("running", children, 0, <<>>, <<>>, FALSE, "")]
        /\ task_pc' = [task_pc EXCEPT ![i] = "communicate"]
        /\ UNCHANGED <<task_results, completion>>
     \/ /\ Finish(i, ExecutionErrorResult(commands[i], "OSError"))
        /\ UNCHANGED procs
  /\ UNCHANGED <<agentVars, pc, commands, parallel, results, prompt, injected>>

\* await asyncio.wait_for(proc.communicate(), timeout) returns: the shell
\* has ended and both pipes are at end of file, so no process holds them
Communicate(i) ==
  /\ pc = "x_running"
  /\ task_pc[i] = "communicate"
  /\ \E returncode \in ReturnCodes, stdout \in Stdouts, stderr \in Stderrs :
       /\ procs' = [procs EXCEPT ![i] =
                      Process("exited", FALSE, returncode, stdout, stderr, FALSE, "")]
       /\ Finish(i, IF returncode = 0
                    THEN SuccessResult(commands[i], stdout, stderr)
                    ELSE FailureResult(commands[i], returncode, stdout, stderr))
  /\ UNCHANGED <<agentVars, pc, commands, parallel, results, prompt, injected>>

\* wait_for raises asyncio.TimeoutError: proc.kill() signals the shell only,
\* then the coroutine awaits proc.wait(); ProcessLookupError (the transport
\* is closed: the shell has ended and its pipes are closed) is passed over,
\* any other exception reaches the outer except clause
Timeout(i) ==
  /\ pc = "x_running"
  /\ task_pc[i] = "communicate"
  /\ \E kill \in KillOutcomes :
       LET p == procs[i] IN
         \/ /\ kill = "killed"
            /\ procs' = [procs EXCEPT ![i] =
                 Process("killed", p.children, -9, <<>>, <<>>, TRUE, kill)]
            /\ task_pc' = [task_pc EXCEPT ![i] = "wait"]
            /\ UNCHANGED <<task_results, completion>>
         \/ /\ kill = "ProcessLookupError"
            /\ procs' = [procs EXCEPT ![i] =
                 Process("exited", FALSE, 0, <<>>, <<>>, TRUE, kill)]
            /\ Finish(i, TimedOutResult(commands[i]))
         \/ /\ kill = "PermissionError"
            /\ procs' = [procs EXCEPT ![i] =
                 Process("running", p.children, 0, <<>>, <<>>, TRUE, kill)]
            /\ Finish(i, ExecutionErrorResult(commands[i], kill))
  /\ UNCHANGED <<agentVars, pc, commands, parallel, results, prompt, injected>>

\* await proc.wait() returns: the timed-out result is returned
Wait(i) ==
  /\ pc = "x_running"
  /\ task_pc[i] = "wait"
  /\ Finish(i, TimedOutResult(commands[i]))
  /\ UNCHANGED <<agentVars, pc, commands, parallel, procs, results, prompt, injected>>

\* Faulty variant: the results are collected as the coroutines finish.
Gathered_as_completed(values, order) == [k \in DOMAIN order |-> values[order[k]]]

\* asyncio.gather(*tasks) / results.append(result) in the for loop: the
\* values of the coroutines in the order of the commands
Gathered(values, order) == [k \in DOMAIN values |-> values[k]]

\* Faulty variant: the call returns when the first coroutine has finished.
AllFinished_first_completed(pcs) == \E i \in DOMAIN pcs : pcs[i] = "done"

\* await asyncio.gather(*tasks), and the end of the sequential for loop:
\* every coroutine has finished
AllFinished(pcs) == \A i \in DOMAIN pcs : pcs[i] = "done"

\* every coroutine has returned: asyncio.run returns the list, or raises
\* what a coroutine raised
ExecuteCommandsReturn ==
  /\ pc = "x_running"
  /\ AllFinished(task_pc)
  /\ IF \E i \in DOMAIN commands : IsRaised(task_results[i])
     THEN pc' = "x_raised" /\ UNCHANGED results
     ELSE pc' = "x_returned" /\ results' = Some(Gathered(task_results, completion))
  /\ UNCHANGED <<agentVars, commands, parallel, task_pc, procs, task_results,
                 completion, prompt, injected>>

ExecNext ==
  \/ ExecuteCommandsCall
  \/ \E i \in DOMAIN commands : Spawn(i) \/ Communicate(i) \/ Timeout(i) \/ Wait(i)
  \/ ExecuteCommandsReturn

ExecSpec == ExecInit /\ [][ExecNext]_vars

(***************************************************************************)
(* context.py: inject_context, with templates.py's rendering of the        *)
(* command templates. Texts are sequences of pieces (labels, markers,      *)
(* characters of the output), joined as the f-strings join them.           *)
(***************************************************************************)
\* template_context: the variable DIR is defined, MISSING is not
TemplateContext == [v \in {"{{ DIR }}"} |-> "src"]

IsVariable(piece) == piece \in {"{{ DIR }}", "{{ MISSING }}"}

\* render_command_template raises TemplateError for an undefined variable
Renders(command_template) ==
  \A k \in DOMAIN command_template :
    IsVariable(command_template[k]) => command_template[k] \in DOMAIN TemplateContext

\* template.render(context).strip(); an undefined variable makes the call
\* raise TemplateError, written as the one-piece text "TemplateError"
render_command_template(command_template) ==
  IF ~Renders(command_template)
  THEN <<"TemplateError">>
  ELSE strip([k \in DOMAIN command_template |->
                IF IsVariable(command_template[k])
                THEN TemplateContext[command_template[k]]
                ELSE command_template[k]])

LsDir == <<"ls", " ", "{{ DIR }}">>
LsMissing == <<"ls", " ", "{{ MISSING }}">>

\* The commands of a batch handed to inject_context: one per failure mode
\* with a template that renders, two with a template that does not.
InjectCommands ==
  {ContextCommand("a", LsDir, "warn", 10),
   ContextCommand("b", LsDir, "ignore", 10),
   ContextCommand("c", LsDir, "fail", 10),
   ContextCommand("d", LsMissing, "ignore", 10),
   ContextCommand("e", LsMissing, "fail", 10)}

\* replace(cmd, command=rendered_command)
Rendered(cmd) == [cmd EXCEPT !.command = render_command_template(cmd.command)]

\* how the execution of one command can end: the shell exits, the timeout
\* strikes and the shell is killed or gone, or spawning or killing raises
ExecOutcome(kind, returncode, stdout, stderr) ==
  [kind |-> kind, returncode |-> returncode, stdout |-> stdout, stderr |-> stderr]

ExecOutcomes ==
  {ExecOutcome("exited", returncode, stdout, stderr) :
     returncode \in ReturnCodes, stdout \in Stdouts, stderr \in Stderrs}
    \cup {ExecOutcome(kind, 0, <<>>, <<>>) : kind \in {"timed out", "OSError", "PermissionError"}}

\* the CommandResult _execute_command_async returns for that ending
ResultFor(cmd, o) ==
  IF o.kind = "exited"
  THEN IF o.returncode = 0
       THEN SuccessResult(cmd, o.stdout, o.stderr)
       ELSE FailureResult(cmd, o.returncode, o.stdout, o.stderr)
  ELSE IF o.kind = "timed out" THEN TimedOutResult(cmd)
  ELSE ExecutionErrorResult(cmd, o.kind)

\* every list execute_commands can return for a batch: one result per
\* command, in the order of the commands
ResultLists(cmds) ==
  {[i \in DOMAIN cmds |-> ResultFor(cmds[i], os[i])] : os \in [DOMAIN cmds -> ExecOutcomes]}

\* the text of an error message
ErrorText(error_message) ==
  IF error_message = NoErrorMessage THEN <<"Unknown error">>
  ELSE <<error_message.kind, ToString(error_message.detail)>>

\* format_context_block
format_context_block(r) ==
  <<"--- Context: ", r.name, " ---\n">>
    \o (IF r.output = <<>> THEN <<"(no output)">> ELSE r.output)
    \o <<"\n--- End Context ---">>

\* format_error_block
format_error_block(r) ==
  <<"--- Context Error: ", r.name, " ---\n">>
    \o ErrorText(r.error_message)
    \o (IF r.output # <<>> THEN <<"\nPartial output:\n">> \o r.output ELSE <<>>)
    \o <<"\n--- End Context ---">>

\* what inject_context returns or raises
Outcome(type, exception, value) == [type |-> type, exception |-> exception, value |-> value]
NoOutcome == Outcome("none", "", <<>>)

\* Faulty variant: a failure never aborts.
Aborts_never(cmd, r) == FALSE

\* if not result.success and cmd.on_failure == FailureMode.FAIL: raise
Aborts(cmd, r) == ~r.success /\ cmd.on_failure = "fail"

\* Faulty variant: an ignored failure is reported like a warning.
BlocksOf_ignore_reported(cmd, r) ==
  IF r.success THEN <<format_context_block(r)>> ELSE <<format_error_block(r)>>

\* what one command adds to context_blocks: the context block of a success,
\* the error block of a failure with WARN, nothing otherwise
BlocksOf(cmd, r) ==
  IF r.success THEN <<format_context_block(r)>>
  ELSE IF cmd.on_failure = "warn" THEN <<format_error_block(r)>>
  ELSE <<>>

\* the for loop over zip(rendered_commands, results) up to position n,
\* when no command aborts
RECURSIVE context_blocks(_, _, _)
context_blocks(cmds, rs, n) ==
  IF n = 0 THEN <<>>
  ELSE context_blocks(cmds, rs, n - 1) \o BlocksOf(cmds[n], rs[n])

\* "\n\n".join(context_blocks)
RECURSIVE join(_)
join(blocks) ==
  IF blocks = <<>> THEN <<>>
  ELSE IF Len(blocks) = 1 THEN blocks[1]
  ELSE blocks[1] \o <<"\n\n">> \o join(Tail(blocks))

\* Faulty variant: the context is put after the prompt.
Augmented_appended(blocks, text) ==
  IF blocks = <<>> THEN text ELSE text \o <<"\n\n">> \o join(blocks)

\* if not context_blocks: return prompt;
\* return f"{context_section}\n\n{prompt}"
Augmented(blocks, text) ==
  IF blocks = <<>> THEN text ELSE join(blocks) \o <<"\n\n">> \o text

\* the first command of the loop that aborts, 0 if there is none
FirstAbort(cmds, rs) ==
  IF \E i \in DOMAIN cmds : Aborts(cmds[i], rs[i])
  THEN CHOOSE i \in DOMAIN cmds :
         /\ Aborts(cmds[i], rs[i])
         /\ \A j \in 1..(i - 1) : ~Aborts(cmds[j], rs[j])
  ELSE 0

\* the loop over the results and the return statement
ProcessResults(cmds, rs, text) ==
  LET i == FirstAbort(cmds, rs) IN
    IF i # 0
    THEN Outcome("raise", "RuntimeError",
                 <<"Context command '", cmds[i].name, "' failed: ">>
                   \o ErrorText(rs[i].error_message))
    ELSE Outcome("return", "", Augmented(context_blocks(cmds, rs, Len(cmds)), text))

\* Faulty variant: a template is rendered when its command is about to run,
\* so only the first command's template is looked at before the execution.
FirstTemplateError_lazy(cmds) ==
  IF ~Renders(cmds[1].command) THEN 1 ELSE 0

\* for cmd in commands: render_command_template(cmd.command, context_values);
\* the index of the first command whose template raises, 0 when all render
FirstTemplateError(cmds) ==
  IF \E i \in DOMAIN cmds : ~Renders(cmds[i].command)
  THEN CHOOSE i \in DOMAIN cmds :
         /\ ~Renders(cmds[i].command)
         /\ \A j \in 1..(i - 1) : Renders(cmds[j].command)
  ELSE 0

Prompts == {<<"p">>}

InjectInit ==
  /\ pc = "i_call"
  /\ prompt \in Prompts
  /\ commands \in SeqsUpTo(InjectCommands, MaxSpecs)
  /\ parallel \in BOOLEAN
  /\ task_pc = <<>>
  /\ procs = <<>>
  /\ task_results = <<>>
  /\ completion = <<>>
  /\ results = None
  /\ injected = NoOutcome
  /\ dynamic_commands = DenyRmAllowAll
  /\ max_commands = 10
  /\ require_confirmation = FALSE
  /\ has_system = FALSE
  /\ messages = <<>>
  /\ commands_executed = 0
  /\ tool_calls = <<>>
  /\ idx = 1
  /\ llm_calls = 0
  /\ request = <<>>
  /\ responses = <<>>
  /\ log = <<>>
  /\ result = NoResult
  /\ v_command = <<>>
  /\ v_allowed = FALSE
  /\ command_result = NoCommandResult

\* inject_context: an empty batch returns the prompt; otherwise the templates
\* are rendered (the first failure raises TemplateError), the rendered
\* commands are executed by execute_commands, and the results are processed
InjectContextCall ==
  /\ pc = "i_call"
  /\ IF commands = <<>>
     THEN /\ injected' = Outcome("return", "", prompt)
          /\ pc' = "i_returned"
          /\ UNCHANGED results
     ELSE IF FirstTemplateError(commands) # 0
     THEN /\ injected' = Outcome("raise", "TemplateError",
                                 <<"In context command '",
                                   commands[FirstTemplateError(commands)].name, "'">>)
          /\ pc' = "i_raised"
          /\ UNCHANGED results
     ELSE LET rendered_commands == [i \in DOMAIN commands |-> Rendered(commands[i])] IN
            \E rs \in ResultLists(rendered_commands) :
              /\ results' = Some(rs)
              /\ injected' = ProcessResults(rendered_commands, rs, prompt)
              /\ pc' = IF injected'.type = "raise" THEN "i_raised" ELSE "i_returned"
  /\ UNCHANGED <<agentVars, commands, parallel, task_pc, procs, task_results,
                 completion, prompt>>

InjectNext == InjectContextCall

InjectSpec == InjectInit /\ [][InjectNext]_vars

(***************************************************************************)
(* Properties of the agentic loop.                                         *)
(***************************************************************************)
Terminal == pc \in {"returned", "raised", "crashed"}

EventsOf(ev) == {i \in DOMAIN log : log[i].ev = ev}

IsAssistant(m) == m.role = "assistant"
IsToolResult(m) == m.role = "tool"
IsToolTurn(r) ==
  r.kind = "choice" /\ r.finish_reason = "tool_calls" /\ r.has_tool_calls

\* positions of the tool results in msgs that answer the call with this id
AnswersTo(msgs, id) ==
  {j \in DOMAIN msgs : IsToolResult(msgs[j]) /\ msgs[j].tool_call_id = id}

\* C1: a command is executed only if is_command_allowed holds for that very
\* command string under the loop's configuration, and the validation of that
\* tool call came before the execution.
C1_ExecutedOnlyIfAllowed ==
  \A i \in EventsOf("executed") :
    /\ is_command_allowed(log[i].command, dynamic_commands)
    /\ \E j \in 1..(i - 1) :
         log[j] = [ev |-> "validated", id |-> log[i].id, command |-> log[i].command]

\* a run in which one command was rejected and another one executed
C1_Witness ==
  /\ EventsOf("executed") # {}
  /\ EventsOf("rejected") # {}

\* C2 as stated: commands_executed <= max_commands in every state, for every
\* configured max_commands.
C2_Original == commands_executed <= max_commands

\* C2 amended: commands_executed never exceeds max_commands when max_commands
\* is not negative, and stays 0 when it is negative.
C2_WithinBudget ==
  commands_executed <= (IF max_commands >= 0 THEN max_commands ELSE 0)

\* the limit is reached by the first call of a turn that holds two calls
C2_Witness ==
  /\ max_commands >= 1
  /\ commands_executed = max_commands
  /\ Len(tool_calls) = 2
  /\ idx = 2

\* C3: in the messages of every completion call, each tool call of each
\* earlier tool-call turn has exactly one tool result with its id.
C3_EveryCallAnsweredOnce ==
  \A i \in DOMAIN request :
    IsAssistant(request[i]) =>
      \A k \in DOMAIN request[i].tool_calls :
        Cardinality(AnswersTo(request, request[i].tool_calls[k].id)) = 1

\* a completion call whose history holds a turn of two calls that ended
\* differently: the first did not parse, the second was executed
C3_Witness ==
  /\ llm_calls = 2
  /\ \E i \in DOMAIN request :
       /\ IsAssistant(request[i])
       /\ Len(request[i].tool_calls) = 2
       /\ request[i].tool_calls[1].arguments.kind = "invalid_json"
       /\ \E j \in AnswersTo(request, request[i].tool_calls[2].id) :
            request[j].content.kind = "output"

\* the tool-call turns answered before the latest completion call
EarlierTurns == SelectSeq(SubSeq(responses, 1, Len(responses) - 1), IsToolTurn)

\* C4: in the messages of every completion call, each earlier tool-call turn
\* appears as one assistant message, directly followed by the tool results
\* of its calls in the order of the calls, and by nothing else of that turn.
C4_TurnThenResultsInOrder ==
  llm_calls >= 1 =>
    /\ LET assistants == SelectSeq(request, IsAssistant) IN
         /\ Len(assistants) = Len(EarlierTurns)
         /\ \A k \in DOMAIN assistants :
              assistants[k].tool_calls = EarlierTurns[k].tool_calls
    /\ \A i \in DOMAIN request :
         IsAssistant(request[i]) =>
           LET calls == request[i].tool_calls IN
             /\ i + Len(calls) <= Len(request)
             /\ \A k \in DOMAIN calls :
                  /\ IsToolResult(request[i + k])
                  /\ request[i + k].tool_call_id = calls[k].id
             /\ \/ i + Len(calls) = Len(request)
                \/ IsAssistant(request[i + Len(calls) + 1])
    /\ \A j \in DOMAIN request :
         IsToolResult(request[j]) => \E i \in 1..(j - 1) : IsAssistant(request[i])

\* a completion call made after two turns, the first with two calls, one
\* rejected and one executed, all of them answered
C4_Witness ==
  /\ llm_calls = 3
  /\ Len(EarlierTurns) = 2
  /\ Len(EarlierTurns[1].tool_calls) = 2
  /\ Len(EarlierTurns[2].tool_calls) = 1
  /\ Cardinality({j \in DOMAIN request : IsToolResult(request[j])}) = 3
  /\ \E j \in DOMAIN request : request[j].content.kind = "Command validation failed"
  /\ \E j \in DOMAIN request : request[j].content.kind = "Error"

\* a tool call whose arguments decode and whose command the validator accepts
AllowedCall(tool_call) ==
  /\ tool_call.arguments.kind = "object"
  /\ is_command_allowed(tool_call.arguments.command, dynamic_commands)

\* every response so far is a tool-call turn that asks for allowed commands
AlwaysRequestsAllowed ==
  \A i \in DOMAIN responses :
    /\ IsToolTurn(responses[i])
    /\ responses[i].tool_calls # <<>>
    /\ \A k \in DOMAIN responses[i].tool_calls : AllowedCall(responses[i].tool_calls[k])

NoDecline == EventsOf("declined") = {}

\* C5 as stated: with max_commands = N (a count, N >= 0) and an LLM that asks
\* for another allowed command on every turn, never more than N commands
\* are executed and the loop ends with the budget error that names N.
C5_Original ==
  (AlwaysRequestsAllowed /\ max_commands >= 0) =>
    /\ commands_executed <= max_commands
    /\ Terminal => result = BudgetError(max_commands)

\* C5 amended: the same when, in addition, the user declines no command
\* (confirmation is off or every prompt is approved); the loop then makes
\* at most N completion calls before it raises.
C5_BudgetErrorNamesLimit ==
  (AlwaysRequestsAllowed /\ max_commands >= 0 /\ NoDecline) =>
    /\ commands_executed <= max_commands
    /\ llm_calls <= max_commands
    /\ Terminal => result = BudgetError(max_commands)

\* the loop has ended with the budget error after executing max_commands
\* commands, each asked for by the LLM
C5_Witness ==
  /\ AlwaysRequestsAllowed
  /\ NoDecline
  /\ max_commands >= 1
  /\ llm_calls >= 1
  /\ commands_executed = max_commands
  /\ pc = "raised"
  /\ result = BudgetError(max_commands)

SingleAllowedTurn(r) ==
  IsToolTurn(r) /\ Len(r.tool_calls) = 1 /\ AllowedCall(r.tool_calls[1])

StopWithContent(r) ==
  r.kind = "choice" /\ r.finish_reason = "stop" /\ r.content # ""

\* the responses so far begin the script "k turns of one allowed command
\* each, then a stop turn with content"
FollowsStopScript ==
  \A i \in DOMAIN responses :
    \/ SingleAllowedTurn(responses[i])
    \/ i = Len(responses) /\ StopWithContent(responses[i])

ToolTurnCount == Len(SelectSeq(responses, IsToolTurn))

\* C6: when the LLM follows that script with 1 <= k <= max_commands and the
\* user declines nothing, the loop can only end by returning the stop
\* turn's text, with exactly k commands executed.
C6_ReturnsStopText ==
  ( /\ FollowsStopScript
    /\ ToolTurnCount >= 1
    /\ ToolTurnCount <= max_commands
    /\ NoDecline
    /\ Terminal ) =>
    /\ result = Return("content", "answer")
    /\ commands_executed = ToolTurnCount

\* C7: the number of completion calls is bounded through max_commands: once
\* the loop has made max_commands + 1 completion calls and handled their
\* responses, it is at a terminal outcome, not about to call the LLM again.
C7_BoundedCompletionCalls ==
  (pc = "awaiting" /\ LoopGuard(commands_executed, max_commands)) =>
    llm_calls < max_commands + 1

(***************************************************************************)
(* Properties of the agentic loop: how one tool call is handled.           *)
(***************************************************************************)
Last(seq) == seq[Len(seq)]

\* the loop is about to handle a tool call whose command the validator rejects
AtRejectedCall ==
  /\ pc = "processing"
  /\ tool_calls[idx].arguments.kind = "object"
  /\ ~is_command_allowed(tool_calls[idx].arguments.command, dynamic_commands)

C19_ExecutionFailureIsRecoverable ==
  [][( /\ pc = "processing"
       /\ EventsOf("executed")' # EventsOf("executed")
       /\ ~command_result'.success ) =>
       /\ Len(messages') = Len(messages) + 1
       /\ SubSeq(messages', 1, Len(messages)) = messages
       /\ Last(messages').role = "tool"
       /\ Last(messages').tool_call_id = tool_calls[idx].id
       /\ Last(messages').content.kind = "Error"
       /\ Last(messages').content.detail = command_result'.error_message
       /\ Last(messages').content.output = command_result'.output
       /\ commands_executed' = commands_executed + 1
       /\ result' = NoResult
       /\ pc' \in {"processing", "awaiting"}
       /\ idx' = idx + 1
       /\ commands_executed' < max_commands =>
            pc' = (IF idx < Len(tool_calls) THEN "processing" ELSE "awaiting")]_vars

\* a command failed with partial output, its error went to the LLM in the
\* second completion call, and then another command timed out
C19_Witness ==
  /\ llm_calls = 2
  /\ commands_executed = 2
  /\ \E j \in DOMAIN request :
       /\ IsToolResult(request[j])
       /\ request[j].content.kind = "Error"
       /\ request[j].content.output = "out"
  /\ IsToolResult(Last(messages))
  /\ Last(messages).content.kind = "Error"
  /\ Last(messages).content.detail = "Command timed out after 30 seconds"
  /\ Last(messages).content.output = ""

\* the state right after the user declined a command
DeclinedOutcome ==
  /\ pc = "returned"
  /\ result = Return("Command execution denied by user.", "")
  /\ Last(log).ev = "declined"
  /\ \A i \in EventsOf("executed") : log[i].id # Last(log).id
  /\ AnswersTo(messages, Last(log).id) = {}
  /\ tool_calls[idx].id = Last(log).id

\* C20: the step in which the user declines a validated command makes the
\* loop return the fixed denial text, without executing that command and
\* without answering it; and no step follows a refusal: no later call of
\* the turn is handled and no completion call is made.
C20_DeclineReturnsAtOnce ==
  [][ /\ EventsOf("declined") = {}
      /\ EventsOf("declined")' # {} =>
           /\ DeclinedOutcome'
           /\ messages' = messages
           /\ commands_executed' = commands_executed
           /\ llm_calls' = llm_calls ]_vars

\* in the second turn the user declined the first of two calls, after
\* approving the command of the first turn
C20_Witness ==
  /\ pc = "returned"
  /\ EventsOf("declined") # {}
  /\ EventsOf("approved") # {}
  /\ llm_calls = 2
  /\ Len(tool_calls) = 2
  /\ idx = 1
  /\ result.type = "return"

\* C29: with confirmation required a tool call goes through parse,
\* validate, confirm and execute in that order: the user is asked (and
\* approves or declines) only directly after validate_command accepted that
\* very call's command, never for a call that was rejected or whose
\* arguments were not decoded, and a command is executed only directly
\* after the user approved that very call.
C29_ParseValidateConfirmExecute ==
  /\ \A e \in DOMAIN log :
       log[e].ev \in {"approved", "declined"} =>
         /\ require_confirmation
         /\ e > 1
         /\ log[e - 1] = [log[e] EXCEPT !.ev = "validated"]
         /\ is_command_allowed(log[e].command, dynamic_commands)
  /\ require_confirmation =>
       \A e \in DOMAIN log :
         log[e].ev = "executed" =>
           /\ e > 2
           /\ log[e - 1] = [log[e] EXCEPT !.ev = "approved"]
           /\ log[e - 2] = [log[e] EXCEPT !.ev = "validated"]
  /\ \A e, f \in DOMAIN log :
       (log[e].ev = "rejected" /\ log[f].id = log[e].id) => f = e
  /\ \A t \in DOMAIN responses :
       IsToolTurn(responses[t]) =>
         \A k \in DOMAIN responses[t].tool_calls :
           LET call == responses[t].tool_calls[k] IN
             \A e \in DOMAIN log :
               log[e].id = call.id =>
                 /\ call.arguments.kind = "object"
                 /\ log[e].command = call.arguments.command

\* With confirmation required, one call was approved and executed, one was
\* rejected and one had arguments that were not decoded.
C29_Witness ==
  /\ require_confirmation
  /\ EventsOf("approved") # {}
  /\ EventsOf("executed") # {}
  /\ EventsOf("rejected") # {}
  /\ \E t \in DOMAIN responses :
       /\ IsToolTurn(responses[t])
       /\ \E k \in DOMAIN responses[t].tool_calls :
            /\ responses[t].tool_calls[k].arguments.kind = "invalid_json"
            /\ AnswersTo(messages, responses[t].tool_calls[k].id) # {}

(***************************************************************************)
(* Properties of the agentic loop: how a turn ends the loop.               *)
(***************************************************************************)
\* C21: a completion call that fails ends the loop at once, in whichever
\* turn it happens: the failed call is the last completion call, the loop
\* has raised the error that names the failure, no message was added after
\* the request of that call and no step of the loop is left to take.
C21_CompletionFailureEndsLoop ==
  \A i \in DOMAIN responses :
    responses[i].kind = "exception" =>
      /\ i = Len(responses)
      /\ llm_calls = i
      /\ pc = "raised"
      /\ result = Raise("LLM API call failed", "")
      /\ messages = request
      /\ ~ENABLED Next

\* The completion call fails in a later turn, after a command was executed.
C21_Witness ==
  /\ Len(responses) >= 2
  /\ Last(responses).kind = "exception"
  /\ commands_executed >= 1
  /\ pc = "raised"

\* C22: a response that is not a tool-call batch ends the loop in the turn
\* it arrives: its content, when there is some, is the value returned; with
\* no content a clean stop raises the empty-response error and any other
\* finish reason raises an error that names the reason. It is the last
\* completion call and no message follows its request.
C22_NonBatchResponseEndsLoop ==
  \A i \in DOMAIN responses :
    LET r == responses[i] IN
      (r.kind = "choice" /\ ~IsToolTurn(r)) =>
        /\ i = Len(responses)
        /\ llm_calls = i
        /\ messages = request
        /\ ~ENABLED Next
        /\ IF r.content # ""
           THEN pc = "returned" /\ result = Return("content", r.content)
           ELSE /\ pc = "raised"
                /\ result.type = "raise"
                /\ IF r.finish_reason = "stop"
                   THEN result.text.kind = "LLM returned empty response"
                   ELSE /\ result.text.kind = "Unexpected finish reason"
                        /\ result.text.detail = r.finish_reason

\* After a turn of tool calls, a response with another finish reason than
\* stop and no content arrives.
C22_Witness ==
  /\ Len(responses) >= 2
  /\ IsToolTurn(responses[1])
  /\ Last(responses).kind = "choice"
  /\ Last(responses).finish_reason = "length"
  /\ Last(responses).content = ""
  /\ pc = "raised"

\* C23: a tool call whose arguments cannot be decoded into an object with a
\* command is answered with a tool result that carries the parse error: the
\* counter keeps its value, nothing is executed, the loop goes on with the
\* next call and does not crash.
C23_MalformedCallIsRecoverable ==
  [][(ProcessToolCall /\ tool_calls[idx].arguments.kind # "object") =>
       /\ messages' = AppendParseError(messages, tool_calls[idx])
       /\ commands_executed' = commands_executed
       /\ log' = log
       /\ idx' = idx + 1
       /\ pc' \in {"awaiting", "processing"}]_vars

\* C24: when the counter reaches max_commands in the middle of a turn, the
\* loop stops handling the turn: the tool results of the calls handled so
\* far follow the turn's assistant message in the order of the request, the
\* last of them is the result of the command that reached the bound, no
\* later call of the turn was validated, executed or answered, and the
\* budget error comes only after that.
C24_BudgetReachedMidTurn ==
  (max_commands >= 1 /\ commands_executed >= max_commands) =>
    /\ pc \in {"awaiting", "raised"}
    /\ commands_executed = max_commands
    /\ responses # <<>>
    /\ IsToolTurn(Last(responses))
    /\ tool_calls = Last(responses).tool_calls
    /\ idx \in 2..(Len(tool_calls) + 1)
    /\ LET n == idx - 1
           base == Len(messages) - n
       IN /\ base >= 1
          /\ IsAssistant(messages[base])
          /\ \A k \in 1..n :
               /\ IsToolResult(messages[base + k])
               /\ messages[base + k].tool_call_id = tool_calls[k].id
    /\ log # <<>>
    /\ Last(log) = Event("executed", tool_calls[idx - 1],
                         tool_calls[idx - 1].arguments.command)
    /\ \A k \in idx..Len(tool_calls) :
         /\ \A e \in DOMAIN log : log[e].id # tool_calls[k].id
         /\ AnswersTo(messages, tool_calls[k].id) = {}
    /\ pc = "raised" => result = BudgetError(max_commands)

\* A turn of three calls with a budget of one: the first is malformed, the
\* second reaches the bound, the third is left alone.
C24_Witness ==
  /\ pc = "raised"
  /\ max_commands = 1
  /\ Len(tool_calls) = 3
  /\ idx = 3
  /\ tool_calls[1].arguments.kind = "invalid_json"
  /\ tool_calls[3].arguments.kind = "object"

\* C30: with max_commands zero or negative the loop is never entered: no
\* completion call is made, no command is validated or executed, nothing is
\* added to the initial messages, and the only step the loop takes is to
\* raise the budget error.
C30_NoBudgetNoTurn ==
  max_commands <= 0 =>
    /\ llm_calls = 0
    /\ responses = <<>>
    /\ commands_executed = 0
    /\ log = <<>>
    /\ messages = InitialMessages(has_system)
    /\ \/ pc = "awaiting" /\ ENABLED RaiseBudget /\ ~ENABLED CompletionCall
       \/ pc = "raised" /\ result = BudgetError(max_commands)

\* The budget error was raised for a negative max_commands.
C30_Witness ==
  /\ max_commands = -1
  /\ pc = "raised"
  /\ result = BudgetError(-1)
  /\ llm_calls = 0

(***************************************************************************)
(* Properties of is_command_allowed.                                       *)
(***************************************************************************)
Returned == pc = "v_return"

\* C8: a command that matches a deny pattern is rejected, whatever allow and
\* available_commands hold.
C8_DenyAlwaysRejects ==
  (Returned /\ DenyMatches(v_command, dynamic_commands)) => ~v_allowed

\* a denied command that an allow pattern or an available entry accepts
C8_Witness ==
  /\ Returned
  /\ DenyMatches(v_command, dynamic_commands)
  /\ \/ AllowMatches(v_command, dynamic_commands)
     \/ AvailableMatches(v_command, dynamic_commands)
  /\ ~v_allowed

NotConfigured(dc) == dc.available_commands = None /\ dc.allow = None

\* C9: with neither available_commands nor allow configured, a non-denied
\* command is accepted iff it matches a safe default (git status is, rm -rf /
\* is not); with either configured, a non-denied command that matches no
\* configured entry is rejected, safe default or not.
C9_SafeDefaultsOnlyWithoutConfig ==
  (Returned /\ ~DenyMatches(v_command, dynamic_commands)) =>
    /\ NotConfigured(dynamic_commands) =>
         /\ v_allowed <=> SafeDefaultMatches(v_command)
         /\ v_command = GitStatus => v_allowed
         /\ v_command = RmRf => ~v_allowed
    /\ ( /\ ~NotConfigured(dynamic_commands)
         /\ ~AvailableMatches(v_command, dynamic_commands)
         /\ ~AllowMatches(v_command, dynamic_commands) ) => ~v_allowed

\* git status, a safe default, rejected because only available_commands is
\* configured and does not list it
C9_Witness ==
  /\ Returned
  /\ v_command = GitStatus
  /\ dynamic_commands.deny = <<>>
  /\ dynamic_commands.allow = None
  /\ dynamic_commands.available_commands # None
  /\ ~v_allowed

\* the command is the declared text, or the declared text and more
ExtendsEntry(command, cmd_def) ==
  cmd_def.is_dict /\ StartsWith(command, cmd_def.command)

ExtendsSomeEntry(command, dc) ==
  \E i \in DOMAIN dc.available_commands.value :
    ExtendsEntry(command, dc.available_commands.value[i])

HasWildcard(pattern) ==
  \E i \in DOMAIN pattern : pattern[i] \in {"*", "?", "["}

\* the case in which the decision is left to the available-commands rule
AvailableDecides ==
  /\ Returned
  /\ dynamic_commands.available_commands # None
  /\ ~DenyMatches(v_command, dynamic_commands)
  /\ ~AllowMatches(v_command, dynamic_commands)

\* C10 as stated: the rule accepts exactly the commands that are a declared
\* text or extend one.
C10_Original ==
  AvailableDecides => (v_allowed <=> ExtendsSomeEntry(v_command, dynamic_commands))

\* C10 amended: the rule accepts exactly the commands that equal a declared
\* text or match it, read as a glob pattern, followed by "*"; for declared
\* texts without wildcard characters these are the commands that are the
\* text or extend it.
C10_AvailableGlobPrefix ==
  AvailableDecides =>
    LET entries == dynamic_commands.available_commands.value IN
      /\ v_allowed <=>
           \E i \in DOMAIN entries :
             /\ entries[i].is_dict
             /\ \/ v_command = entries[i].command
                \/ fnmatch(v_command, entries[i].command \o <<"*">>)
      /\ (\A i \in DOMAIN entries : ~HasWildcard(entries[i].command)) =>
           (v_allowed <=> ExtendsSomeEntry(v_command, dynamic_commands))

\* a command accepted because it extends a declared text without wildcards
C10_Witness ==
  /\ AvailableDecides
  /\ v_allowed
  /\ \E i \in DOMAIN dynamic_commands.available_commands.value :
       LET e == dynamic_commands.available_commands.value[i] IN
         /\ e.is_dict
         /\ ~HasWildcard(e.command)
         /\ StartsWith(v_command, e.command)
         /\ v_command # e.command

\* C25: when the policy configures both available_commands and allow, a
\* command that no deny pattern matches is accepted exactly when it matches
\* an available entry or an allow pattern; a miss in one of the two does
\* not reject what the other accepts.
C25_AvailableAndAllowCombine ==
  (/\ Returned
   /\ dynamic_commands.available_commands # None
   /\ dynamic_commands.allow # None
   /\ ~DenyMatches(v_command, dynamic_commands)) =>
     (v_allowed <=>
        \/ \E i \in DOMAIN dynamic_commands.available_commands.value :
             AvailEntryMatches(v_command, dynamic_commands.available_commands.value[i])
        \/ \E i \in DOMAIN dynamic_commands.allow.value :
             fnmatch(v_command, dynamic_commands.allow.value[i]))

\* Both are configured, no available entry matches the command, an allow
\* pattern does, and the command is accepted.
C25_Witness ==
  /\ Returned
  /\ dynamic_commands.available_commands # None
  /\ dynamic_commands.available_commands.value # <<>>
  /\ dynamic_commands.allow # None
  /\ ~DenyMatches(v_command, dynamic_commands)
  /\ ~AvailableMatches(v_command, dynamic_commands)
  /\ AllowMatches(v_command, dynamic_commands)
  /\ v_allowed

\* C28: validate_command raises exactly when is_command_allowed is false for
\* the command and the policy, and the message of the error is the
\* explanation of that refusal, which names the rule that blocked the
\* command: a deny pattern of the policy that matches it; when none does,
\* the configured allowed commands if available_commands or allow is
\* configured; and the safe default list otherwise.
C28_ExplanationNamesBlockingRule ==
  pc \in {"v_validated", "v_raised"} =>
    LET dc == dynamic_commands
        denied == {i \in DOMAIN dc.deny : fnmatch(v_command, dc.deny[i])}
    IN
      /\ v_allowed = is_command_allowed(v_command, dc)
      /\ pc = "v_raised" <=> ~v_allowed
      /\ pc = "v_validated" => result.type = "return"
      /\ pc = "v_raised" =>
           /\ result.type = "raise"
           /\ result.text.kind = "CommandValidationError"
           /\ result.text.detail.command = v_command
           /\ IF denied # {}
              THEN /\ result.text.detail.rule = "matches denylist pattern"
                   /\ \E i \in denied : result.text.detail.pattern = dc.deny[i]
              ELSE IF dc.available_commands # None \/ dc.allow # None
              THEN result.text.detail.rule = "is not in the configured allowed commands"
              ELSE result.text.detail.rule = "is not in the safe default command list"

\* A command that a deny pattern blocks although an allow pattern matches
\* it: the error names the deny pattern.
C28_Witness ==
  /\ pc = "v_raised"
  /\ DenyMatches(v_command, dynamic_commands)
  /\ AllowMatches(v_command, dynamic_commands)
  /\ result.text.detail.rule = "matches denylist pattern"
  /\ fnmatch(v_command, result.text.detail.pattern)

(***************************************************************************)
(* Properties of execute_commands and _execute_command_async.              *)
(***************************************************************************)
TaskDone(i) == task_pc[i] = "done"

SpawnFailed(i) == TaskDone(i) /\ procs[i].shell = "none"
TimedOut(i) == TaskDone(i) /\ procs[i].timed_out
Exited(i) == TaskDone(i) /\ procs[i].shell = "exited" /\ ~procs[i].timed_out
KillFailed(i) == TimedOut(i) /\ procs[i].kill = "PermissionError"

\* C11: when execute_commands returns, in parallel and in sequential mode,
\* the list holds one result per command and the i-th result is the one the
\* coroutine of the i-th command produced, labelled with that command's
\* name, in whatever order the commands completed; for an empty batch the
\* list is empty and no process was spawned.
C11_OneResultPerSpecInOrder ==
  /\ pc # "x_raised"
  /\ pc = "x_returned" =>
       /\ results # None
       /\ Len(results.value) = Len(commands)
       /\ \A i \in DOMAIN commands :
            /\ results.value[i] = task_results[i]
            /\ results.value[i].name = commands[i].name
       /\ commands = <<>> =>
            /\ results.value = <<>>
            /\ procs = <<>>
            /\ completion = <<>>

\* a parallel batch of two commands with different results, returned after
\* the second command completed before the first
C11_Witness ==
  /\ pc = "x_returned"
  /\ parallel
  /\ completion = <<2, 1>>
  /\ results.value[1] # results.value[2]
  /\ procs[1].shell # "none"
  /\ procs[2].shell # "none"

\* C12 as stated: every finished coroutine has produced a CommandResult that
\* its outcome determines: exit code 0 gives success without error message, exit code N # 0 gives
\* failure with "exited with code N" and the combined output, a timeout
\* gives failure with "timed out after <timeout> seconds", a spawn failure
\* gives failure with a descriptive error.
C12_Original ==
  \A i \in DOMAIN commands :
    TaskDone(i) =>
      LET p == procs[i]
          r == task_results[i]
          cmd == commands[i]
      IN
        /\ ~IsRaised(r)
        /\ r.name = cmd.name
        /\ (Exited(i) /\ p.returncode = 0) =>
             /\ r.success
             /\ r.error_message = NoErrorMessage
        /\ (Exited(i) /\ p.returncode # 0) =>
             /\ ~r.success
             /\ r.error_message = ErrorMessage("Command exited with code", p.returncode)
             /\ r.output = combined_output(p.stdout, p.stderr)
        /\ TimedOut(i) =>
             /\ ~r.success
             /\ r.error_message = ErrorMessage("Command timed out after seconds", cmd.timeout)
        /\ SpawnFailed(i) =>
             /\ ~r.success
             /\ r.error_message.kind = "Execution error"

\* the outcome fixes the result, with the timeout case as the code has it
ResultFitsOutcome(i) ==
  LET p == procs[i]
      r == task_results[i]
      cmd == commands[i]
  IN
    /\ ~IsRaised(r)
    /\ r.name = cmd.name
    /\ (Exited(i) /\ p.returncode = 0) =>
         /\ r.success
         /\ r.error_message = NoErrorMessage
    /\ (Exited(i) /\ p.returncode # 0) =>
         /\ ~r.success
         /\ r.error_message = ErrorMessage("Command exited with code", p.returncode)
         /\ r.output = combined_output(p.stdout, p.stderr)
    /\ (TimedOut(i) /\ ~KillFailed(i)) =>
         /\ ~r.success
         /\ r.error_message = ErrorMessage("Command timed out after seconds", cmd.timeout)
    /\ KillFailed(i) =>
         /\ ~r.success
         /\ r.error_message = ErrorMessage("Execution error", "PermissionError")
    /\ SpawnFailed(i) =>
         /\ ~r.success
         /\ r.error_message.kind = "Execution error"

\* C12 amended: the same, except that a timeout gives "timed out after
\* <timeout> seconds" when the process could be killed or was already gone,
\* and "Execution error: <error>" when killing it failed with another
\* error; the result of a coroutine never changes once it is made.
C12_ResultDeterminedByOutcome ==
  [][\A i \in DOMAIN commands :
       /\ TaskDone(i)' => ResultFitsOutcome(i)'
       /\ TaskDone(i) => task_results'[i] = task_results[i]]_vars

\* two finished commands: one timed out and was killed, the other ended
\* with exit code 1 after writing to both streams
C12_Witness ==
  /\ Len(commands) = 2
  /\ TimedOut(1)
  /\ procs[1].kill = "killed"
  /\ task_results[1].error_message.detail = commands[1].timeout
  /\ Exited(2)
  /\ procs[2].returncode = 1
  /\ task_results[2].output = <<"o", "\n", "e">>

\* a finished coroutine whose command did not end with exit code 0
Failed(i) ==
  SpawnFailed(i) \/ TimedOut(i) \/ (Exited(i) /\ procs[i].returncode # 0)

\* C13: no coroutine raises: a spawn failure, a nonzero exit, a timeout and
\* a failure while killing the process all end in a CommandResult with
\* success = false, and execute_commands returns a list, never an exception.
C13_FailuresBecomeResults ==
  /\ pc # "x_raised"
  /\ \A i \in DOMAIN commands :
       TaskDone(i) =>
         /\ ~IsRaised(task_results[i])
         /\ Failed(i) => ~task_results[i].success
  /\ pc = "x_returned" =>
       /\ results # None
       /\ Len(results.value) = Len(commands)

\* execute_commands has returned the results of a batch in which the shell
\* of one command could not be spawned and killing the other one failed
C13_Witness ==
  /\ pc = "x_returned"
  /\ Len(commands) = 2
  /\ SpawnFailed(1)
  /\ KillFailed(2)
  /\ ~results.value[1].success
  /\ ~results.value[2].success

\* C14: once a coroutine has returned the timed-out result, neither the
\* shell it spawned nor a process the shell started is still running.
C14_NoProcessSurvivesTimeout ==
  \A i \in DOMAIN commands :
    (TaskDone(i) /\ task_results[i] = TimedOutResult(commands[i])) =>
      /\ procs[i].shell # "running"
      /\ ~procs[i].children

\* C27: in parallel mode execute_commands has one coroutine per command of
\* the batch, none of which waits for another before it starts, and it
\* returns only when every one of them has finished and left its result,
\* also when some of them timed out or failed while others were running.
C27_ParallelJoinsAll ==
  parallel =>
    /\ DOMAIN task_pc = DOMAIN commands
    /\ pc = "x_running" =>
         \A i \in DOMAIN commands : task_pc[i] = "pending" => ENABLED Spawn(i)
    /\ pc \in {"x_returned", "x_raised"} =>
         /\ Len(completion) = Len(commands)
         /\ \A i \in DOMAIN commands :
              /\ TaskDone(i)
              /\ task_results[i] # NoTaskResult
              /\ \E k \in DOMAIN completion : completion[k] = i
              /\ procs[i].shell = "running" => KillFailed(i)

\* A parallel batch of two: the first command timed out and was killed
\* while the second was still running; the call returned after the second
\* had exited as well.
C27_Witness ==
  /\ parallel
  /\ pc = "x_returned"
  /\ completion = <<1, 2>>
  /\ TimedOut(1)
  /\ ~KillFailed(1)
  /\ Exited(2)

(***************************************************************************)
(* Properties of inject_context.                                           *)
(***************************************************************************)
Executed == results # None

FailedAt(i) == ~results.value[i].success

\* the commands whose result is kept: the successes and the failures with WARN
Survives(i) == ~FailedAt(i) \/ commands[i].on_failure = "warn"

Survivors ==
  IF Executed THEN SelectSeq([i \in DOMAIN commands |-> i], Survives) ELSE <<>>

ContextMarker == "--- Context: "
ErrorMarker == "--- Context Error: "

\* the places of the returned text at which a block starts
StartsBlock(k) == injected.value[k] \in {ContextMarker, ErrorMarker}

BlockStarts == SelectSeq([k \in DOMAIN injected.value |-> k], StartsBlock)

\* C15: when the commands were executed and a command with on_failure FAIL
\* failed, inject_context has raised and has returned no text, whatever the
\* other commands are and however they ended.
C15_FailAborts ==
  ( /\ pc \in {"i_returned", "i_raised"}
    /\ Executed
    /\ \E i \in DOMAIN commands : commands[i].on_failure = "fail" /\ FailedAt(i) ) =>
    /\ pc = "i_raised"
    /\ injected.type = "raise"
    /\ injected.exception = "RuntimeError"
    /\ \A k \in DOMAIN injected.value : injected.value[k] # ContextMarker

\* the first command succeeded and would have given a block, the second one
\* has on_failure FAIL and failed: inject_context raised
C15_Witness ==
  /\ pc = "i_raised"
  /\ Executed
  /\ Len(commands) = 2
  /\ commands[1].on_failure = "warn"
  /\ ~FailedAt(1)
  /\ commands[2].on_failure = "fail"
  /\ FailedAt(2)
  /\ injected.exception = "RuntimeError"

\* C16: the text inject_context returns holds one block per surviving
\* command and none for a failed command with on_failure IGNORE (per label:
\* as many blocks with a label as surviving commands with that name); when
\* nothing survives (empty batch, or every command failed with IGNORE) the
\* text is the prompt itself.
C16_IgnoredFailuresLeaveNoTrace ==
  pc = "i_returned" =>
    /\ injected.type = "return"
    /\ Len(BlockStarts) = Len(Survivors)
    /\ \A i \in DOMAIN commands :
         Cardinality({j \in DOMAIN BlockStarts :
                        injected.value[BlockStarts[j] + 1] = commands[i].name})
           = Cardinality({j \in DOMAIN Survivors :
                            commands[Survivors[j]].name = commands[i].name})
    /\ Survivors = <<>> => injected.value = prompt

\* two commands with on_failure IGNORE failed, one of them with partial
\* output: the prompt came back unchanged
C16_Witness ==
  /\ pc = "i_returned"
  /\ Executed
  /\ Len(commands) = 2
  /\ \A i \in DOMAIN commands : commands[i].on_failure = "ignore" /\ FailedAt(i)
  /\ results.value[1].output # <<>>
  /\ injected.value = prompt

\* C17: the text inject_context returns after executing the commands holds
\* the blocks of the surviving commands in the order of the commands (a
\* context block for a success, an error block for a failure with WARN,
\* each labelled with the command's name), and ends with the prompt, which
\* comes after every block and, when there is a block, after a separator.
C17_BlocksThenPrompt ==
  (pc = "i_returned" /\ Executed) =>
    LET text == injected.value
        tail == Len(text) - Len(prompt) + 1
    IN
      /\ Len(BlockStarts) = Len(Survivors)
      /\ \A j \in DOMAIN BlockStarts :
           /\ text[BlockStarts[j]] =
                (IF FailedAt(Survivors[j]) THEN ErrorMarker ELSE ContextMarker)
           /\ text[BlockStarts[j] + 1] = commands[Survivors[j]].name
           /\ BlockStarts[j] < tail
      /\ tail >= 1
      /\ SubSeq(text, tail, Len(text)) = prompt
      /\ Survivors # <<>> => (tail >= 2 /\ text[tail - 1] = "\n\n")

\* a failure with WARN followed by a success: an error block, then a
\* context block, then the prompt
C17_Witness ==
  /\ pc = "i_returned"
  /\ Executed
  /\ Len(commands) = 2
  /\ commands[1].on_failure = "warn"
  /\ FailedAt(1)
  /\ ~FailedAt(2)
  /\ commands[2].name # commands[1].name
  /\ Len(BlockStarts) = 2

\* C26: inject_context renders every command template before it executes
\* any command: when some template of the batch does not render, the call
\* raises the template error that names the first such command and no
\* command of the batch was executed, whatever the on_failure modes; when
\* commands were executed, every template had rendered.
C26_RenderBeforeExecute ==
  /\ (\E i \in DOMAIN commands : ~Renders(commands[i].command)) =>
       \/ pc = "i_call"
       \/ /\ pc = "i_raised"
          /\ injected.type = "raise"
          /\ injected.exception = "TemplateError"
          /\ \E i \in DOMAIN commands :
               /\ ~Renders(commands[i].command)
               /\ \A j \in 1..(i - 1) : Renders(commands[j].command)
               /\ injected.value = <<"In context command '", commands[i].name, "'">>
          /\ ~Executed
  /\ Executed =>
       /\ \A i \in DOMAIN commands : Renders(commands[i].command)
       /\ Len(results.value) = Len(commands)

\* The first command renders and would run, the second one, whose failures
\* are to be ignored, has a template that does not render.
C26_Witness ==
  /\ pc = "i_raised"
  /\ Len(commands) = 2
  /\ Renders(commands[1].command)
  /\ ~Renders(commands[2].command)
  /\ commands[2].on_failure = "ignore"
  /\ injected.exception = "TemplateError"
  /\ ~Executed

====
